---- MODULE Spec2Model ----
(***************************************************************************)
(* Code Analysis MCP server (kaleido34/Code-Analysis-Mcp).                 *)
(*                                                                         *)
(* The model follows the copy of the server that registers analyze_path    *)
(* (types.ts, utils.ts and server.ts as embedded in src/web-client.html,   *)
(* lines 222-1184).  Three specifications are given:                       *)
(*   Spec      the request router and its handlers over a small file       *)
(*             system, one step per await of the handlers;                 *)
(*   SpecTs    the same for the server of src/src/server.ts, whose tool    *)
(*             surface is analyze_file and generate_documentation;         *)
(*   SpecPure  the pure functions (complexity estimate, severity band,    *)
(*             file type, line count, the file tree and the language       *)
(*             distribution of the Markdown document) applied to inputs    *)
(*             drawn from bounded sets.                                    *)
(***************************************************************************)
EXTENDS Integers, Sequences, FiniteSets, TLC

VARIABLES
    currentProjectPath, \* CodeAnalysisServer.currentProjectPath
    running,            \* the server process is alive
    fs,                 \* the file system: path -> node
    fsChanges,          \* number of changes other processes made to fs
    nextId,             \* correlation id of the next request to arrive
    reqs,               \* id -> activation record of the request's handler
    out,                \* responses written to the transport, in order
    arrived,            \* id -> the value of fsChanges when the request arrived
    mode,               \* SpecPure: which pure function is exercised
    est,                \* SpecPure: a text, its estimate, and the last append
    band,               \* SpecPure: a score and its severity level
    cls,                \* SpecPure: a file name and its file type
    lc,                 \* SpecPure: a text and its line count
    md                  \* SpecPure: files, a histogram, and their Markdown

vars == <<currentProjectPath, running, fs, fsChanges, nextId, reqs, out,
          arrived, mode, est, band, cls, lc, md>>

serverVars == <<currentProjectPath, running, fs, fsChanges, nextId, reqs, out,
                arrived>>
pureVars == <<mode, est, band, cls, lc, md>>

(***************************************************************************)
(* Bounds of the model.                                                    *)
(***************************************************************************)
MaxRequests == 2
MaxFsChanges == 1
MaxTextLen == 3
MaxScore == 24
MaxNameLen == 4
MaxFiles == 22
MaxCount == 3

(***************************************************************************)
(* Text.  A text is a sequence of lexical units; each unit stands for the  *)
(* characters it is written with, so that the regular expressions of       *)
(* calculateCyclomaticComplexity can be evaluated as the engine does:      *)
(*   keywords and "w" (one identifier character) are word characters,      *)
(*   "s" is a blank, "nl" is a line feed (both match \s),                  *)
(*   "(", "&", "|", "?" are themselves, ";" is any other punctuation.      *)
(***************************************************************************)
Keywords == {"if", "else", "while", "for", "case", "catch"}
WordUnits == Keywords \cup {"w"}
SpaceUnits == {"s", "nl"}
Units == WordUnits \cup SpaceUnits \cup {"(", "&", "|", "?", ";"}

UnitLen(u) ==
    CASE u = "if" -> 2
      [] u = "for" -> 3
      [] u \in {"else", "case"} -> 4
      [] u \in {"while", "catch"} -> 5
      [] OTHER -> 1

RECURSIVE CharLen(_)
CharLen(t) == IF t = <<>> THEN 0 ELSE UnitLen(Head(t)) + CharLen(Tail(t))

\* \b before position i: the previous character is not a word character
WordBoundaryBefore(t, i) == i = 1 \/ t[i - 1] \notin WordUnits

\* position reached from i after skipping \s*
RECURSIVE SkipSpace(_, _)
SkipSpace(t, i) ==
    IF i <= Len(t) /\ t[i] \in SpaceUnits THEN SkipSpace(t, i + 1) ELSE i

\* /\bKW\s*\(/ matched at position i: index of the closing unit, 0 if none
MatchKeywordParen(kw, t, i) ==
    IF t[i] = kw /\ WordBoundaryBefore(t, i)
    THEN LET j == SkipSpace(t, i + 1)
         IN  IF j <= Len(t) /\ t[j] = "(" THEN j ELSE 0
    ELSE 0

\* /\belse\s+if\s*\(/
MatchElseIf(t, i) ==
    IF t[i] = "else" /\ WordBoundaryBefore(t, i)
       /\ i + 1 <= Len(t) /\ t[i + 1] \in SpaceUnits
    THEN LET j == SkipSpace(t, i + 1)
         IN  IF j <= Len(t) /\ t[j] = "if"
             THEN LET k == SkipSpace(t, j + 1)
                  IN  IF k <= Len(t) /\ t[k] = "(" THEN k ELSE 0
             ELSE 0
    ELSE 0

\* /\bcase\s+/  (greedy: the match takes the whole run of blanks)
MatchCase(t, i) ==
    IF t[i] = "case" /\ WordBoundaryBefore(t, i)
       /\ i + 1 <= Len(t) /\ t[i + 1] \in SpaceUnits
    THEN SkipSpace(t, i + 1) - 1
    ELSE 0

\* /&&/ and /\|\|/
MatchPair(c, t, i) ==
    IF t[i] = c /\ i + 1 <= Len(t) /\ t[i + 1] = c THEN i + 1 ELSE 0

\* /\?/
MatchOne(c, t, i) == IF t[i] = c THEN i ELSE 0

\* the nine entries of decisionPoints, in the order of the array
decisionPoints ==
    <<"if", "elseif", "while", "for", "case", "catch", "&&", "||", "?">>

MatchAt(pat, t, i) ==
    CASE pat \in {"if", "while", "for", "catch"} -> MatchKeywordParen(pat, t, i)
      [] pat = "elseif" -> MatchElseIf(t, i)
      [] pat = "case" -> MatchCase(t, i)
      [] pat = "&&" -> MatchPair("&", t, i)
      [] pat = "||" -> MatchPair("|", t, i)
      [] pat = "?" -> MatchOne("?", t, i)

\* functionContent.match(pattern) with the g flag: the number of leftmost,
\* non-overlapping matches found from position i on
RECURSIVE CountMatches(_, _, _)
CountMatches(pat, t, i) ==
    IF i > Len(t) THEN 0
    ELSE LET e == MatchAt(pat, t, i)
         IN  IF e > 0 THEN 1 + CountMatches(pat, t, e + 1)
             ELSE CountMatches(pat, t, i + 1)

RECURSIVE SumMatches(_, _)
SumMatches(t, k) ==
    IF k > Len(decisionPoints) THEN 0
    ELSE CountMatches(decisionPoints[k], t, 1) + SumMatches(t, k + 1)

calculateCyclomaticComplexity(functionContent) ==
    1 + SumMatches(functionContent, 1)

\* the thresholds taken exclusive instead of inclusive
getComplexityLevelExclusive(complexity) ==
    IF complexity < 5 THEN "low"
    ELSE IF complexity < 10 THEN "medium"
    ELSE IF complexity < 20 THEN "high"
    ELSE "critical"

getComplexityLevel(complexity) ==
    IF complexity <= 5 THEN "low"
    ELSE IF complexity <= 10 THEN "medium"
    ELSE IF complexity <= 20 THEN "high"
    ELSE "critical"

\* the values of est and band before anything was computed
NoEstimate == [text |-> <<>>, score |-> 0, before |-> 0, appended |-> "none"]
NoBand == [score |-> 0, level |-> "none", prev |-> "none"]
NoClass == [name |-> <<>>, type |-> "none"]
NoLines == [text |-> <<>>, lines |-> 0, counted |-> FALSE]
NoMarkdown ==
    [files |-> <<>>, languages |-> <<>>, tree |-> <<>>, distribution |-> <<>>,
     generated |-> FALSE]

(***************************************************************************)
(* Paths and the file system.  A path is the sequence of its segments;     *)
(* path.resolve(root, rel) is concatenation.  A node of the file system is *)
(* missing, a directory, a regular file or another kind of entry (socket,  *)
(* FIFO, device); readable says whether readdir/readFile succeed on it.    *)
(***************************************************************************)
Root == <<"proj">>
FileA == <<"proj", "a.ts">>
DirSub == <<"proj", "sub">>
FileB == <<"proj", "sub", "b.PY">>
\* entries the scan is to leave out: version-control metadata, a dependency
\* cache, build output, a log file and a hidden file
GitDir == <<"proj", "sub", ".git">>
GitHead == <<"proj", "sub", ".git", "HEAD">>
ModulesDir == <<"proj", "sub", "node_modules">>
ModuleFile == <<"proj", "sub", "node_modules", "m.js">>
DistDir == <<"proj", "sub", "dist">>
DistFile == <<"proj", "sub", "dist", "o.js">>
LogFile == <<"proj", "sub", "run.log">>
EnvFile == <<"proj", "sub", ".env">>
ExcludedPaths == {GitDir, GitHead, ModulesDir, ModuleFile, DistDir, DistFile,
                  LogFile, EnvFile}
Paths == {Root, FileA, DirSub, FileB} \cup ExcludedPaths

TextPlain == <<"w", "nl", "w">>
TextBranchy == <<"if", "(", "w", "nl", "&", "&", "nl">>

Missing == [kind |-> "missing", readable |-> FALSE, content |-> <<>>]
Dir(r) == [kind |-> "dir", readable |-> r, content |-> <<>>]
File(r, c) == [kind |-> "file", readable |-> r, content |-> c]
Other == [kind |-> "other", readable |-> FALSE, content |-> <<>>]

\* what another process can turn an entry into
MutablePaths == {FileA, DirSub, FileB}
NodeStates(p) ==
    CASE p = FileA -> {Missing, Dir(TRUE), Other, File(FALSE, <<>>),
                       File(TRUE, <<>>), File(TRUE, TextPlain)}
      [] p = DirSub -> {Missing, Dir(TRUE), Dir(FALSE)}
      [] p = FileB -> {Missing, File(TRUE, <<>>)}

InitFs ==
    [p \in Paths |->
        CASE p = Root -> Dir(TRUE)
          [] p = FileA -> File(TRUE, TextBranchy)
          [] p = DirSub -> Dir(TRUE)
          [] p = FileB -> File(TRUE, <<>>)
          [] p \in {GitDir, ModulesDir, DistDir} -> Dir(TRUE)
          [] OTHER -> File(TRUE, TextPlain)]

Parent(p) == SubSeq(p, 1, Len(p) - 1)
basename(p) == IF p = <<>> THEN "" ELSE p[Len(p)]
IsPrefix(a, b) == Len(a) <= Len(b) /\ SubSeq(b, 1, Len(a)) = a

\* the node a path names: every ancestor has to be a directory
RECURSIVE Lookup(_, _)
Lookup(fsys, p) ==
    IF p \notin DOMAIN fsys THEN Missing
    ELSE IF Len(p) <= 1 THEN fsys[p]
    ELSE IF Lookup(fsys, Parent(p)).kind = "dir" THEN fsys[p]
    ELSE Missing

\* The characters of a file name, as the sequence of its dots and of the
\* runs of characters between them: "a.ts" is <<"a", ".", "ts">>.
Chars(name) ==
    CASE name = "a.ts" -> <<"a", ".", "ts">>
      [] name = "b.PY" -> <<"b", ".", "PY">>
      [] name = "nope.ts" -> <<"nope", ".", "ts">>
      [] name = "a<NUL>.ts" -> <<"a<NUL>", ".", "ts">>
      [] name = "run.log" -> <<"run", ".", "log">>
      [] name = "m.js" -> <<"m", ".", "js">>
      [] name = "o.js" -> <<"o", ".", "js">>
      [] name = ".git" -> <<".", "git">>
      [] name = ".env" -> <<".", "env">>
      [] name = ".next" -> <<".", "next">>
      [] OTHER -> <<name>>

\* the position of the last dot of a name, 0 when it has none
LastDot(chars) ==
    IF \E k \in DOMAIN chars : chars[k] = "."
    THEN CHOOSE k \in DOMAIN chars :
            /\ chars[k] = "."
            /\ \A m \in DOMAIN chars : chars[m] = "." => m <= k
    ELSE 0

\* path.extname on the last component of a path: from the last dot to the
\* end; empty when there is no dot, when the only dot is the first
\* character, and for the component ".."
extname(chars) ==
    LET startDot == LastDot(chars)
    IN  IF startDot = 0 \/ startDot = 1 \/ chars = <<".", ".">>
        THEN <<>>
        ELSE SubSeq(chars, startDot, Len(chars))

\* String.prototype.toLowerCase
LowerCaseOf(run) ==
    CASE run \in {"TS", "tS", "Ts"} -> "ts"
      [] run \in {"PY", "pY", "Py"} -> "py"
      [] run = "HEAD" -> "head"
      [] OTHER -> run

\* the extension compared as it is written
toLowerCaseIdentity(chars) == chars

toLowerCase(chars) == [k \in DOMAIN chars |-> LowerCaseOf(chars[k])]

\* getFileType(filePath); filePath is given as the characters of its last
\* component, path.extname reading nothing that precedes it
getFileType(filePath) ==
    LET ext == toLowerCase(extname(filePath))
    IN  CASE ext = <<".", "ts">> -> "typescript"
          [] ext = <<".", "js">> -> "javascript"
          [] ext = <<".", "json">> -> "json"
          [] ext = <<".", "md">> -> "markdown"
          [] ext \in {<<".", "yml">>, <<".", "yaml">>} -> "yaml"
          [] ext = <<".", "html">> -> "html"
          [] ext = <<".", "css">> -> "css"
          [] ext = <<".", "py">> -> "python"
          [] ext = <<".", "java">> -> "java"
          [] ext \in {<<".", "cpp">>, <<".", "cc">>, <<".", "cxx">>} -> "cpp"
          [] OTHER -> "other"

\* content.split('\n').length
RECURSIVE CountUnit(_, _)
CountUnit(t, u) ==
    IF t = <<>> THEN 0
    ELSE (IF Head(t) = u THEN 1 ELSE 0) + CountUnit(Tail(t), u)

SplitLines(content) == CountUnit(content, "nl") + 1

\* the set of all orderings of a finite set, as sequences
RECURSIVE Orderings(_)
Orderings(S) ==
    IF S = {} THEN {<<>>}
    ELSE UNION {{<<x>> \o o : o \in Orderings(S \ {x})} : x \in S}

\* getDirectoryChildren: readdir, [] when it fails
getDirectoryChildren(fsys, dirPath) ==
    LET node == Lookup(fsys, dirPath)
    IN  IF node.kind = "dir" /\ node.readable
        THEN {p \in DOMAIN fsys :
                 Len(p) = Len(dirPath) + 1 /\ Parent(p) = dirPath
                 /\ fsys[p].kind # "missing"}
        ELSE {}

\* getFileInfo(filePath): the FileInfo, or the error it rethrows.  stat,
\* readFile and readdir are taken on one state of the file system.
getFileInfo(fsys, filePath) ==
    LET node == Lookup(fsys, filePath)
        isFile == node.kind = "file"
        isDirectory == node.kind = "dir"
    IN  IF node.kind = "missing"
        THEN [ok |-> FALSE, error |-> "ENOENT"]
        ELSE IF isFile /\ ~node.readable
        THEN [ok |-> FALSE, error |-> "EACCES"]
        ELSE [ok |-> TRUE,
              info |-> [path |-> filePath,
                        name |-> basename(filePath),
                        extension |-> extname(Chars(basename(filePath))),
                        type |-> getFileType(Chars(basename(filePath))),
                        hasLines |-> isFile,
                        lines |-> IF isFile THEN SplitLines(node.content) ELSE 0,
                        isDirectory |-> isDirectory,
                        hasChildren |-> isDirectory,
                        children |-> IF isDirectory
                                     THEN getDirectoryChildren(fsys, filePath)
                                     ELSE {}]]

\* safeReadFile(filePath): the text, or null
safeReadFile(fsys, filePath) ==
    LET node == Lookup(fsys, filePath)
    IN  IF node.kind = "file" /\ node.readable
        THEN [null |-> FALSE, text |-> node.content]
        ELSE [null |-> TRUE, text |-> <<>>]

\* the ignore list and dot: false of scanProjectStructure's glob call
IgnoredDirs == {"node_modules", ".git", "dist", "build", ".next"}
IsDotName(name) == Chars(name)[1] = "."
\* a glob call with the ignore list alone: a hidden entry is matched
IsIgnoredByListOnly(rootPath, p) ==
    \/ \E k \in (Len(Root) + 1)..Len(p) : p[k] \in IgnoredDirs
    \/ extname(Chars(basename(p))) = <<".", "log">>

\* the ignore patterns are matched on the path relative to the working
\* directory; dot: false holds for what the wildcards of rootPath/**/* match
IsIgnored(rootPath, p) ==
    \/ \E k \in (Len(Root) + 1)..Len(p) : p[k] \in IgnoredDirs
    \/ extname(Chars(basename(p))) = <<".", "log">>
    \/ \E k \in (Len(rootPath) + 1)..Len(p) : IsDotName(p[k])

\* every ancestor of p below rootPath (rootPath included) can be listed
RECURSIVE Listable(_, _, _)
Listable(fsys, rootPath, p) ==
    LET d == Parent(p)
        node == Lookup(fsys, d)
    IN  /\ node.kind = "dir"
        /\ node.readable
        /\ (d = rootPath \/ Listable(fsys, rootPath, d))

\* the paths glob(rootPath/**/*) matches
GlobMatches(fsys, rootPath) ==
    {p \in DOMAIN fsys :
        /\ Len(p) > Len(rootPath)
        /\ IsPrefix(rootPath, p)
        /\ Lookup(fsys, p).kind # "missing"
        /\ Listable(fsys, rootPath, p)
        /\ ~IsIgnored(rootPath, p)}

\* glob returns the matches in no documented order
GlobResults(fsys, rootPath) == Orderings(GlobMatches(fsys, rootPath))

(***************************************************************************)
(* Requests, errors and responses.                                         *)
(***************************************************************************)
StructureUri == "codebase://project/structure"
ReadmeUri == "docs://generated/readme"
Uris == {StructureUri, ReadmeUri, "file:///etc/passwd"}
PromptNames == {"code_review", "explain_code"}
Formats == {"undefined", "markdown", "json"}

\* the values of args.path the model sends: absent, the empty string, a
\* number, a string holding a NUL character, and well-formed strings
NoPath == [raw |-> "none", type |-> "undefined", abs |-> FALSE, nul |-> FALSE,
           segs |-> <<>>]
PathArgs ==
    {[raw |-> "undefined", type |-> "undefined", abs |-> FALSE, nul |-> FALSE,
      segs |-> <<>>],
     [raw |-> "", type |-> "string", abs |-> FALSE, nul |-> FALSE,
      segs |-> <<>>],
     [raw |-> "7", type |-> "number", abs |-> FALSE, nul |-> FALSE,
      segs |-> <<>>],
     [raw |-> "a<NUL>.ts", type |-> "string", abs |-> FALSE, nul |-> TRUE,
      segs |-> <<"a<NUL>.ts">>],
     [raw |-> "a.ts", type |-> "string", abs |-> FALSE, nul |-> FALSE,
      segs |-> <<"a.ts">>],
     [raw |-> "/proj/sub", type |-> "string", abs |-> TRUE, nul |-> FALSE,
      segs |-> <<"proj", "sub">>],
     [raw |-> "sub/b.PY", type |-> "string", abs |-> FALSE, nul |-> FALSE,
      segs |-> <<"sub", "b.PY">>],
     [raw |-> "nope.ts", type |-> "string", abs |-> FALSE, nul |-> FALSE,
      segs |-> <<"nope.ts">>]}

Request(method, name, path, format) ==
    [method |-> method, name |-> name, path |-> path, filePath |-> NoPath,
     projectName |-> "demo", format |-> format]

Requests ==
    {Request(m, "none", NoPath, "undefined") :
        m \in {"resources/list", "tools/list", "prompts/list"}}
    \cup {Request("resources/read", u, NoPath, "undefined") : u \in Uris}
    \cup {Request("tools/call", "analyze_path", a, "undefined") : a \in PathArgs}
    \cup {Request("tools/call", "generate_documentation", NoPath, f) :
            f \in Formats}
    \cup {[Request("tools/call", "generate_documentation", NoPath, "markdown")
              EXCEPT !.projectName = "proj"]}
    \cup {Request("tools/call", "analyze_file", NoPath, "undefined")}
    \cup {Request("prompts/get", n, NoPath, "undefined") : n \in PromptNames}

\* the requests sent to the server of src/server.ts
RequestsTs ==
    {Request("tools/list", "none", NoPath, "undefined"),
     Request("resources/read", StructureUri, NoPath, "undefined"),
     Request("tools/call", "generate_documentation", NoPath, "undefined")}
    \cup {Request("tools/call", "analyze_path", a, "undefined") :
            a \in {b \in PathArgs : b.raw = "a.ts"}}
    \cup {[Request("tools/call", "analyze_file", NoPath, "undefined")
              EXCEPT !.filePath = a] :
            a \in {b \in PathArgs : b.raw \in {"undefined", "a.ts", "nope.ts",
                                                "sub/b.PY"}}}

\* new McpError(code, message); arg is the value interpolated in the message.
\* cause is not a field of the error: it records the message of the
\* exception that was first raised, for the statements about it
McpError(code, text, arg) ==
    [class |-> "McpError", code |-> code, text |-> text, arg |-> arg,
     cause |-> text]

\* an error of the runtime (TypeError, a file system error): no MCP code
RuntimeError(text) ==
    [class |-> "Error", code |-> "none", text |-> text, arg |-> "none",
     cause |-> text]

NoError ==
    [class |-> "none", code |-> "none", text |-> "", arg |-> "none",
     cause |-> ""]
NoPayload == [kind |-> "none"]

\* the activation record of one handler invocation
NewRec(id, req) ==
    [id |-> id, req |-> req, pc |-> "start",
     fullPath |-> <<>>, content |-> <<>>,
     scanRoot |-> <<>>, then |-> "none",
     allPaths |-> <<>>, idx |-> 0,
     files |-> <<>>, directories |-> <<>>, languages |-> <<>>,
     totalLines |-> 0, warnings |-> 0,
     ok |-> FALSE, payload |-> NoPayload, error |-> NoError]

\* the handler returned: its locals are dropped; warnings, the number of
\* lines it wrote with logger.warn, stays
Return(rec, payload) ==
    [NewRec(rec.id, rec.req) EXCEPT
        !.pc = "done", !.ok = TRUE, !.payload = payload,
        !.warnings = rec.warnings]

\* the handler threw
Throw(rec, err) ==
    [NewRec(rec.id, rec.req) EXCEPT
        !.pc = "done", !.ok = FALSE, !.error = err,
        !.warnings = rec.warnings]

(***************************************************************************)
(* Report assembly.  A text is kept as the record of what is serialized    *)
(* into it; the timestamps of the structure and of a file analysis         *)
(* (generatedAt, analyzedAt) are left out, a Date being kept as "Date".    *)
(***************************************************************************)
FileTreeLimit == 20

\* the keys without the one inserted last
KeysButLast(languages) ==
    [k \in 1..(Len(languages) - 1) |-> languages[k].lang]

\* Object.keys(languages): the keys in insertion order
Keys(languages) == [k \in 1..Len(languages) |-> languages[k].lang]

\* languages[langKey] = (languages[langKey] || 0) + 1, keys in insertion order
CountLanguage(languages, langKey) ==
    IF \E k \in 1..Len(languages) : languages[k].lang = langKey
    THEN [k \in 1..Len(languages) |->
            IF languages[k].lang = langKey
            THEN [languages[k] EXCEPT !.count = @ + 1]
            ELSE languages[k]]
    ELSE Append(languages, [lang |-> langKey, count |-> 1])

\* Array.prototype.sort(([,a], [,b]) => b - a): stable, descending count
RECURSIVE InsertByCount(_, _)
InsertByCount(sorted, e) ==
    IF sorted = <<>> THEN <<e>>
    ELSE IF Head(sorted).count >= e.count
         THEN <<Head(sorted)>> \o InsertByCount(Tail(sorted), e)
         ELSE <<e>> \o sorted

RECURSIVE SortByCount(_)
SortByCount(entries) ==
    IF entries = <<>> THEN <<>>
    ELSE InsertByCount(SortByCount(SubSeq(entries, 1, Len(entries) - 1)),
                       entries[Len(entries)])

generateLanguageDistributionMarkdown(languages) == SortByCount(languages)

\* file.path.replace(process.cwd(), '.')
RelativeToCwd(path) ==
    IF IsPrefix(Root, path)
    THEN <<".">> \o SubSeq(path, Len(Root) + 1, Len(path))
    ELSE path

\* the file tree without `.slice(0, 20)`
generateFileTreeMarkdownUncapped(files) ==
    LET plain == SelectSeq(files, LAMBDA f : ~f.isDirectory)
    IN  [k \in 1..Len(plain) |-> RelativeToCwd(plain[k].path)]

generateFileTreeMarkdown(files) ==
    LET plain == SelectSeq(files, LAMBDA f : ~f.isDirectory)
        shown == SubSeq(plain, 1, IF Len(plain) < FileTreeLimit
                                  THEN Len(plain) ELSE FileTreeLimit)
    IN  [k \in 1..Len(shown) |-> RelativeToCwd(shown[k].path)]

generateMarkdownDocs(projectName, structure) ==
    [kind |-> "markdown",
     title |-> projectName,
     totalFiles |-> structure.totalFiles,
     totalLines |-> structure.totalLines,
     languages |-> Keys(structure.languages),
     fileTree |-> generateFileTreeMarkdown(structure.files),
     distribution |-> generateLanguageDistributionMarkdown(structure.languages)]

\* a block whose type names the format of its text
TextBlockByFormat(text) == [type |-> text.kind, text |-> text]

TextBlock(text) == [type |-> "text", text |-> text]

(***************************************************************************)
(* scanProjectStructure: the call runs to `await glob`, then resumes once  *)
(* per `await getFileInfo` of the loop.                                    *)
(***************************************************************************)
StartScan(rec, rootPath, then) ==
    [rec EXCEPT !.pc = "glob", !.scanRoot = rootPath, !.then = then]

\* a fixed title in place of the root's base name
readmeProjectNameFixed(root) == "Project"

\* `const projectName = path.basename(this.currentProjectPath)`
readmeProjectName(root) == basename(root)

\* the structure with the directories counted among the files
ProjectStructureCountingDirectories(rec) ==
    [rootPath |-> rec.scanRoot,
     totalFiles |-> Len(rec.files) + Len(rec.directories),
     totalLines |-> rec.totalLines,
     languages |-> rec.languages,
     directories |-> rec.directories,
     files |-> rec.files]

ProjectStructure(rec) ==
    [rootPath |-> rec.scanRoot,
     totalFiles |-> Len(rec.files),
     totalLines |-> rec.totalLines,
     languages |-> rec.languages,
     directories |-> rec.directories,
     files |-> rec.files]

\* what the caller of scanProjectStructure does with the structure
FinishScan(rec, root) ==
    LET structure == ProjectStructure(rec)
    IN  CASE rec.then = "structure" ->
               Return(rec, [kind |-> "contents",
                            blocks |-> <<TextBlock([kind |-> "json",
                                                    value |-> structure])>>])
          [] rec.then = "readme" ->
               Return(rec, [kind |-> "contents",
                            blocks |-> <<TextBlock(
                                generateMarkdownDocs(readmeProjectName(root),
                                                     structure))>>])
          [] rec.then = "docs_markdown" ->
               Return(rec, [kind |-> "content",
                            blocks |-> <<TextBlock(
                                generateMarkdownDocs(rec.req.projectName,
                                                     structure))>>])
          [] rec.then = "docs_json" ->
               Return(rec, [kind |-> "content",
                            blocks |-> <<TextBlock([kind |-> "json",
                                value |-> [project |-> rec.req.projectName,
                                           structure |-> structure,
                                           generatedAt |-> "Date"]])>>])
          [] rec.then = "prompt" ->
               Return(rec, [kind |-> "messages",
                            blocks |-> <<[role |-> "user", type |-> "text",
                                text |-> [kind |-> "review",
                                          files |-> structure.totalFiles,
                                          lines |-> structure.totalLines,
                                          languages |-> Keys(structure.languages)]]>>])
          [] rec.then = "directory" ->
               Return(rec, [kind |-> "content",
                            blocks |-> <<TextBlock([kind |-> "directory",
                                                    path |-> rec.scanRoot,
                                                    value |-> structure])>>])

\* the continuations of `await glob(...)`: one per order of the matches
ScanGlobbed(rec, fsys, root) ==
    {IF order = <<>>
     THEN FinishScan(rec, root)
     ELSE [rec EXCEPT !.pc = "walk", !.allPaths = order, !.idx = 1] :
        order \in GlobResults(fsys, rec.scanRoot)}

\* an iteration that lets the error of getFileInfo end the scan
ScanVisitedFailFast(rec, fsys, root) ==
    LET filePath == rec.allPaths[rec.idx]
        got == getFileInfo(fsys, filePath)
        rec2 ==
            IF got.info.isDirectory
            THEN [rec EXCEPT !.directories = Append(@, filePath)]
            ELSE [rec EXCEPT
                    !.files = Append(@, got.info),
                    !.languages = CountLanguage(@, got.info.type),
                    !.totalLines = IF got.info.hasLines /\ got.info.lines # 0
                                   THEN @ + got.info.lines ELSE @]
    IN  IF ~got.ok
        THEN Throw(rec, RuntimeError(got.error))
        ELSE IF rec.idx = Len(rec.allPaths)
        THEN FinishScan(rec2, root)
        ELSE [rec2 EXCEPT !.idx = @ + 1]

\* one iteration of the loop over allPaths
ScanVisited(rec, fsys, root) ==
    LET filePath == rec.allPaths[rec.idx]
        got == getFileInfo(fsys, filePath)
        rec2 ==
            IF ~got.ok
            THEN [rec EXCEPT !.warnings = @ + 1]
            ELSE IF got.info.isDirectory
            THEN [rec EXCEPT !.directories = Append(@, filePath)]
            ELSE [rec EXCEPT
                    !.files = Append(@, got.info),
                    !.languages = CountLanguage(@, got.info.type),
                    !.totalLines = IF got.info.hasLines /\ got.info.lines # 0
                                   THEN @ + got.info.lines ELSE @]
    IN  IF rec.idx = Len(rec.allPaths)
        THEN FinishScan(rec2, root)
        ELSE [rec2 EXCEPT !.idx = @ + 1]

(***************************************************************************)
(* analyzePath                                                             *)
(***************************************************************************)
\* !inputPath
Falsy(inputPath) ==
    inputPath.type = "undefined" \/ (inputPath.type = "string" /\ inputPath.raw = "")

\* isValidPath: path.resolve throws for an argument that is not a string,
\* and for nothing else
isValidPath(filePath) == filePath.type = "string"

\* the catch clause of analyzePath
analyzePathCatch(err) ==
    [McpError("InternalError", "Failed to analyze path", "none") EXCEPT
        !.cause = err.cause]

\* analyzePath up to `await fs.stat(fullPath)`
analyzePathBegin(rec, root) ==
    LET inputPath == rec.req.path
    IN  IF Falsy(inputPath)
        THEN Throw(rec, McpError("InvalidRequest", "Path is required", "none"))
        ELSE IF inputPath.type # "string"
        THEN \* path.isAbsolute(inputPath) throws a TypeError
             Throw(rec, RuntimeError("ERR_INVALID_ARG_TYPE"))
        ELSE LET fullPath ==
                     [inputPath EXCEPT
                        !.abs = TRUE,
                        !.segs = IF inputPath.abs THEN @ ELSE root \o @]
             IN  IF ~isValidPath(fullPath)
                 THEN Throw(rec, McpError("InvalidRequest", "Invalid path: ",
                                          inputPath.raw))
                 ELSE [rec EXCEPT !.pc = "stat", !.fullPath = fullPath]

\* after `await fs.stat(fullPath)`
analyzePathStat(rec, fsys) ==
    LET node == Lookup(fsys, rec.fullPath.segs)
    IN  IF rec.fullPath.nul
        THEN Throw(rec, analyzePathCatch(RuntimeError("ERR_INVALID_ARG_VALUE")))
        ELSE IF node.kind = "missing"
        THEN Throw(rec, analyzePathCatch(RuntimeError("ENOENT")))
        ELSE IF node.kind = "dir"
        THEN StartScan(rec, rec.fullPath.segs, "directory")
        ELSE [rec EXCEPT !.pc = "read"]

\* after `await safeReadFile(fullPath)`
analyzePathRead(rec, fsys) ==
    LET content == safeReadFile(fsys, rec.fullPath.segs)
    IN  IF content.null \/ content.text = <<>>
        THEN Throw(rec, analyzePathCatch(
                 McpError("InvalidRequest", "File not found or unreadable", "none")))
        ELSE [rec EXCEPT !.pc = "info", !.content = content.text]

\* after `await getFileInfo(fullPath)`
analyzePathInfo(rec, fsys) ==
    LET got == getFileInfo(fsys, rec.fullPath.segs)
        complexity == calculateCyclomaticComplexity(rec.content)
    IN  IF ~got.ok
        THEN Throw(rec, analyzePathCatch(RuntimeError(got.error)))
        ELSE Return(rec,
                [kind |-> "content",
                 blocks |-> <<TextBlock(
                    [kind |-> "file",
                     path |-> rec.req.path.raw,
                     fileType |-> got.info.type,
                     lines |-> IF got.info.hasLines THEN got.info.lines ELSE 0,
                     characters |-> CharLen(rec.content),
                     cyclomatic |-> complexity,
                     level |-> getComplexityLevel(complexity)])>>])

\* generateDocs with no default value for format
generateDocsNoDefault(rec, root) ==
    StartScan(rec, root,
              IF rec.req.format = "markdown" THEN "docs_markdown"
              ELSE "docs_json")

\* generateDocs up to its scan; format defaults to 'markdown'
generateDocsBegin(rec, root) ==
    LET format == IF rec.req.format = "undefined" THEN "markdown"
                  ELSE rec.req.format
    IN  StartScan(rec, root,
                  IF format = "markdown" THEN "docs_markdown" ELSE "docs_json")

(***************************************************************************)
(* The request handlers of setupHandlers, each up to its first await.      *)
(***************************************************************************)
ListResources(rec) ==
    Return(rec, [kind |-> "resources", blocks |-> <<StructureUri, ReadmeUri>>])

ReadResource(rec, root) ==
    LET uri == rec.req.name
    IN  CASE uri = StructureUri -> StartScan(rec, root, "structure")
          [] uri = ReadmeUri -> StartScan(rec, root, "readme")
          [] OTHER -> Throw(rec, McpError("InvalidRequest", "Unknown resource: ", uri))

\* a tool descriptor: its name, the properties of its inputSchema (all of
\* type string) and those of them that are required
Tool(name, properties, required) ==
    [name |-> name, properties |-> properties, required |-> required]

GenerateDocumentationTool ==
    Tool("generate_documentation", {"projectName", "format"}, {"projectName"})

\* a list that keeps the descriptor of a tool the dispatch no longer has
ListToolsWithAnalyzeFile(rec) ==
    Return(rec, [kind |-> "tools",
                 blocks |-> <<Tool("analyze_path", {"path"}, {"path"}),
                              Tool("analyze_file", {"filePath"}, {"filePath"}),
                              GenerateDocumentationTool>>])

ListTools(rec) ==
    Return(rec, [kind |-> "tools",
                 blocks |-> <<Tool("analyze_path", {"path"}, {"path"}),
                              GenerateDocumentationTool>>])

\* the tool list of src/server.ts
ListToolsTs(rec) ==
    Return(rec, [kind |-> "tools",
                 blocks |-> <<Tool("analyze_file", {"filePath"}, {"filePath"}),
                              GenerateDocumentationTool>>])

\* the switch without its default branch throwing: an unknown name falls
\* through to the documentation generator
CallToolNoDefault(rec, root) ==
    LET name == rec.req.name
    IN  CASE name = "analyze_path" -> analyzePathBegin(rec, root)
          [] OTHER -> generateDocsBegin(rec, root)

CallTool(rec, root) ==
    LET name == rec.req.name
    IN  CASE name = "analyze_path" -> analyzePathBegin(rec, root)
          [] name = "generate_documentation" -> generateDocsBegin(rec, root)
          [] OTHER -> Throw(rec, McpError("MethodNotFound", "Unknown tool: ", name))

\* analyzeFile of src/server.ts up to `await safeReadFile(fullPath)`
analyzeFileBegin(rec, root) ==
    LET filePath == rec.req.filePath
    IN  IF filePath.type # "string"
        THEN \* path.resolve(this.currentProjectPath, filePath) throws
             Throw(rec, RuntimeError("ERR_INVALID_ARG_TYPE"))
        ELSE [rec EXCEPT
                !.pc = "fileread",
                !.fullPath = [filePath EXCEPT
                                !.abs = TRUE,
                                !.segs = IF filePath.abs THEN @ ELSE root \o @]]

\* analyzeFile after `await safeReadFile(fullPath)`
analyzeFileRead(rec, fsys) ==
    LET content == safeReadFile(fsys, rec.fullPath.segs)
    IN  IF content.null \/ content.text = <<>>
        THEN Throw(rec, McpError("InvalidRequest", "File not found", "none"))
        ELSE [rec EXCEPT !.pc = "fileinfo", !.content = content.text]

\* analyzeFile after `await getFileInfo(fullPath)`
analyzeFileInfo(rec, fsys) ==
    LET got == getFileInfo(fsys, rec.fullPath.segs)
        complexity == calculateCyclomaticComplexity(rec.content)
    IN  IF ~got.ok
        THEN Throw(rec, RuntimeError(got.error))
        ELSE Return(rec,
                [kind |-> "content",
                 blocks |-> <<TextBlock(
                    [kind |-> "file",
                     path |-> rec.req.filePath.raw,
                     fileType |-> got.info.type,
                     lines |-> IF got.info.hasLines THEN got.info.lines ELSE 0,
                     characters |-> CharLen(rec.content),
                     cyclomatic |-> complexity,
                     level |-> getComplexityLevel(complexity)])>>])

\* the call-tool handler of src/server.ts
CallToolTs(rec, root) ==
    LET name == rec.req.name
    IN  CASE name = "analyze_file" -> analyzeFileBegin(rec, root)
          [] name = "generate_documentation" -> generateDocsBegin(rec, root)
          [] OTHER -> Throw(rec, McpError("MethodNotFound", "Unknown tool: ", name))

ListPrompts(rec) ==
    Return(rec, [kind |-> "prompts",
                 blocks |-> <<[name |-> "code_review", arguments |-> <<>>]>>])

GetPrompt(rec, root) ==
    LET name == rec.req.name
    IN  IF name = "code_review"
        THEN StartScan(rec, root, "prompt")
        ELSE Throw(rec, McpError("MethodNotFound", "Unknown prompt: ", name))

\* the handler registered for the request's method, run to its first await;
\* mode tells the server of src/server.ts from the later copy of it
Dispatch(rec, root) ==
    CASE rec.req.method = "resources/list" -> ListResources(rec)
      [] rec.req.method = "resources/read" -> ReadResource(rec, root)
      [] rec.req.method = "tools/list" ->
            IF mode = "server_ts" THEN ListToolsTs(rec) ELSE ListTools(rec)
      [] rec.req.method = "tools/call" ->
            IF mode = "server_ts" THEN CallToolTs(rec, root)
            ELSE CallTool(rec, root)
      [] rec.req.method = "prompts/list" -> ListPrompts(rec)
      [] rec.req.method = "prompts/get" -> GetPrompt(rec, root)

\* the response frame for a handler that returned or threw: an error that
\* carries no MCP code is sent as an internal error
Response(rec) ==
    IF rec.ok
    THEN [id |-> rec.id, kind |-> "result", payload |-> rec.payload,
          code |-> "none", message |-> "", arg |-> "none", cause |-> ""]
    ELSE [id |-> rec.id, kind |-> "error", payload |-> NoPayload,
          code |-> IF rec.error.class = "McpError" THEN rec.error.code
                   ELSE "InternalError",
          message |-> rec.error.text, arg |-> rec.error.arg,
          cause |-> rec.error.cause]

(***************************************************************************)
(* Spec: the server.  run() connects the transport; from then on every     *)
(* incoming request invokes its registered async handler at once, and the  *)
(* handler's promise is answered when it settles.  Nothing in the server   *)
(* holds a request back while another one is suspended on I/O.             *)
(***************************************************************************)
\* main().catch exits the process when main() rejects, that is when the
\* construction or run() fails; a handler's rejection is not seen by it
\* a rejected handler reaching main().catch, which exits the process
ProcessExitsOnRejection(rec) == ~rec.ok

ProcessExits(rec) == FALSE

Suspended(rec) ==
    rec.pc \in {"glob", "walk", "stat", "read", "info", "fileread", "fileinfo"}

\* the record kept of a request whose response has been written
Sent(rec) ==
    [NewRec(rec.id, rec.req) EXCEPT
        !.pc = "sent", !.ok = rec.ok, !.warnings = rec.warnings]

\* the continuations of a suspended handler when its awaited I/O completes
Resumed(rec, fsys, root) ==
    CASE rec.pc = "glob" -> ScanGlobbed(rec, fsys, root)
      [] rec.pc = "walk" -> {ScanVisited(rec, fsys, root)}
      [] rec.pc = "stat" -> {analyzePathStat(rec, fsys)}
      [] rec.pc = "read" -> {analyzePathRead(rec, fsys)}
      [] rec.pc = "info" -> {analyzePathInfo(rec, fsys)}
      [] rec.pc = "fileread" -> {analyzeFileRead(rec, fsys)}
      [] rec.pc = "fileinfo" -> {analyzeFileInfo(rec, fsys)}

Init ==
    /\ currentProjectPath = Root
    /\ running = TRUE
    /\ fs = InitFs
    /\ fsChanges = 0
    /\ nextId = 1
    /\ reqs = <<>>
    /\ out = <<>>
    /\ arrived = <<>>
    /\ mode = "server"
    /\ est = NoEstimate
    /\ band = NoBand
    /\ cls = NoClass
    /\ lc = NoLines
    /\ md = NoMarkdown

\* a request is read from the transport and its handler is invoked; the
\* handler runs to its first await, or to its end when it awaits nothing
Arrive ==
    /\ running
    /\ nextId <= MaxRequests
    /\ \E req \in (IF mode = "server_ts" THEN RequestsTs ELSE Requests) :
          reqs' = Append(reqs, Dispatch(NewRec(nextId, req), currentProjectPath))
    /\ nextId' = nextId + 1
    /\ arrived' = Append(arrived, fsChanges)
    /\ UNCHANGED <<currentProjectPath, running, fs, fsChanges, out>>
    /\ UNCHANGED pureVars

\* the response of a handler that settled without awaiting is written once
\* the transport has handed over the requests it had read; oldest first
Respond ==
    /\ running
    /\ \E i \in DOMAIN reqs :
          /\ reqs[i].pc = "done"
          /\ \A j \in 1..(i - 1) : reqs[j].pc # "done"
          /\ out' = Append(out, Response(reqs[i]))
          /\ reqs' = [reqs EXCEPT ![i] = Sent(reqs[i])]
          /\ running' = ~ProcessExits(reqs[i])
    /\ UNCHANGED <<currentProjectPath, fs, fsChanges, nextId, arrived>>
    /\ UNCHANGED pureVars

\* the scans in flight keeping their line total in one shared variable
SettleSharedTotal(i, rec2) ==
    IF rec2.pc = "done"
    THEN /\ reqs' = [reqs EXCEPT ![i] = Sent(rec2)]
         /\ out' = Append(out, Response(rec2))
         /\ running' = ~ProcessExits(rec2)
    ELSE /\ reqs' = [j \in DOMAIN reqs |->
                        IF j = i THEN rec2
                        ELSE IF reqs[j].pc = "walk"
                        THEN [reqs[j] EXCEPT !.totalLines = rec2.totalLines]
                        ELSE reqs[j]]
         /\ UNCHANGED <<out, running>>

\* an awaited I/O of handler i completes and the handler runs on to its
\* next await; when it settles instead, its response is written
Settle(i, rec2) ==
    IF rec2.pc = "done"
    THEN /\ reqs' = [reqs EXCEPT ![i] = Sent(rec2)]
         /\ out' = Append(out, Response(rec2))
         /\ running' = ~ProcessExits(rec2)
    ELSE /\ reqs' = [reqs EXCEPT ![i] = rec2]
         /\ UNCHANGED <<out, running>>

\* the handlers resumed on the file system as it was at startup
ResumeOnStartupFs(i) ==
    /\ running
    /\ \A j \in DOMAIN reqs : reqs[j].pc # "done"
    /\ \E rec2 \in Resumed(reqs[i], InitFs, currentProjectPath) : Settle(i, rec2)
    /\ UNCHANGED <<currentProjectPath, fs, fsChanges, nextId, arrived>>
    /\ UNCHANGED pureVars

\* the handlers with analyzePath making the directory it scans the root
ResumeRetargeting(i) ==
    /\ running
    /\ \A j \in DOMAIN reqs : reqs[j].pc # "done"
    /\ \E rec2 \in Resumed(reqs[i], fs, currentProjectPath) : Settle(i, rec2)
    /\ currentProjectPath' = IF reqs[i].then = "directory"
                             THEN reqs[i].scanRoot
                             ELSE currentProjectPath
    /\ UNCHANGED <<fs, fsChanges, nextId, arrived>>
    /\ UNCHANGED pureVars

Resume(i) ==
    /\ running
    /\ \A j \in DOMAIN reqs : reqs[j].pc # "done"
    /\ \E rec2 \in Resumed(reqs[i], fs, currentProjectPath) : Settle(i, rec2)
    /\ UNCHANGED <<currentProjectPath, fs, fsChanges, nextId, arrived>>
    /\ UNCHANGED pureVars

\* scanProjectStructure resumes after `await glob(...)`
ScanGlob ==
    \E i \in DOMAIN reqs :
        /\ reqs[i].pc = "glob"
        /\ Resume(i)

\* scanProjectStructure resumes after `await getFileInfo(filePath)`
ScanEntry ==
    \E i \in DOMAIN reqs :
        /\ reqs[i].pc = "walk"
        /\ Resume(i)

\* analyzePath resumes after `await fs.stat(fullPath)`
AnalyzePathStat ==
    \E i \in DOMAIN reqs :
        /\ reqs[i].pc = "stat"
        /\ Resume(i)

\* analyzePath resumes after `await safeReadFile(fullPath)`
AnalyzePathRead ==
    \E i \in DOMAIN reqs :
        /\ reqs[i].pc = "read"
        /\ Resume(i)

\* analyzePath resumes after `await getFileInfo(fullPath)`
AnalyzePathInfo ==
    \E i \in DOMAIN reqs :
        /\ reqs[i].pc = "info"
        /\ Resume(i)

\* another process changes one entry of the file system
FsChange ==
    /\ fsChanges < MaxFsChanges
    /\ \E p \in MutablePaths :
       \E n \in NodeStates(p) :
          /\ n # fs[p]
          /\ fs' = [fs EXCEPT ![p] = n]
    /\ fsChanges' = fsChanges + 1
    /\ UNCHANGED <<currentProjectPath, running, nextId, reqs, out, arrived>>
    /\ UNCHANGED pureVars

Next ==
    \/ Arrive
    \/ Respond
    \/ ScanGlob
    \/ ScanEntry
    \/ AnalyzePathStat
    \/ AnalyzePathRead
    \/ AnalyzePathInfo
    \/ FsChange

Spec == Init /\ [][Next]_vars

(***************************************************************************)
(* SpecTs: the server of src/server.ts, which registers analyze_file.      *)
(***************************************************************************)
\* analyzeFile resumes after `await safeReadFile(fullPath)`
AnalyzeFileRead ==
    \E i \in DOMAIN reqs :
        /\ reqs[i].pc = "fileread"
        /\ Resume(i)

\* analyzeFile resumes after `await getFileInfo(fullPath)`
AnalyzeFileInfo ==
    \E i \in DOMAIN reqs :
        /\ reqs[i].pc = "fileinfo"
        /\ Resume(i)

InitTs ==
    /\ currentProjectPath = Root
    /\ running = TRUE
    /\ fs = InitFs
    /\ fsChanges = 0
    /\ nextId = 1
    /\ reqs = <<>>
    /\ out = <<>>
    /\ arrived = <<>>
    /\ mode = "server_ts"
    /\ est = NoEstimate
    /\ band = NoBand
    /\ cls = NoClass
    /\ lc = NoLines
    /\ md = NoMarkdown

NextTs ==
    \/ Arrive
    \/ Respond
    \/ ScanGlob
    \/ ScanEntry
    \/ AnalyzeFileRead
    \/ AnalyzeFileInfo
    \/ FsChange

SpecTs == InitTs /\ [][NextTs]_vars

\* the responses a request gets when it is served alone on a file system
\* that does not change
RECURSIVE RunAlone(_, _, _)
RunAlone(rec, fsys, root) ==
    IF rec.pc = "done" THEN {Response(rec)}
    ELSE UNION {RunAlone(rec2, fsys, root) : rec2 \in Resumed(rec, fsys, root)}

ServedAlone(id, req, fsys, root) ==
    RunAlone(Dispatch(NewRec(id, req), root), fsys, root)

(***************************************************************************)
(* SpecPure: the pure functions on bounded inputs.                         *)
(***************************************************************************)
TextsUpTo(n) == UNION {[1..k -> Units] : k \in 0..n}

\* one occurrence of each counted token, written the shortest way
Occurrence(tok) ==
    CASE tok \in {"if", "while", "for", "catch"} -> <<tok, "(">>
      [] tok = "elseif" -> <<"else", "s", "if", "(">>
      [] tok = "case" -> <<"case", "s">>
      [] tok = "&&" -> <<"&", "&">>
      [] tok = "||" -> <<"|", "|">>
      [] tok = "?" -> <<"?">>

CountedTokens == {decisionPoints[k] : k \in 1..Len(decisionPoints)}

\* the text with one more occurrence of tok appended in isolation: set off
\* from what precedes it by a statement terminator and a blank
AppendIsolated(t, tok) == t \o <<";", "s">> \o Occurrence(tok)


IdleServer ==
    /\ currentProjectPath = "/proj"
    /\ running = FALSE
    /\ fs = <<>>
    /\ fsChanges = 0
    /\ nextId = 1
    /\ reqs = <<>>
    /\ out = <<>>
    /\ arrived = <<>>

\* file names: the runs of characters the model tells apart, and dots
NameUnits == {".", "ts", "TS", "tS", "py", "PY", "x"}
NamesUpTo(n) == UNION {[1..k -> NameUnits] : k \in 0..n}

\* the files of a structure: n entries, the k-th lying k levels below the
\* root, of which the one at position d, if any, is a directory
EntryPath(k) == Root \o [i \in 1..k |-> "d"]
FileLists ==
    {[k \in 1..n |-> [path |-> EntryPath(k), isDirectory |-> (k = d)]] :
        n \in 0..MaxFiles, d \in 0..1} \cup
    {[k \in 1..n |-> [path |-> EntryPath(k), isDirectory |-> (k = d)]] :
        n \in (MaxFiles - 2)..MaxFiles, d \in 2..MaxFiles}

\* the languages of a structure: tags in the order of their first file, each
\* with the number of its files
LanguageTags == {"typescript", "python", "json"}
Histograms ==
    {h \in UNION {[1..n -> [lang : LanguageTags, count : 1..MaxCount]] :
                    n \in 0..Cardinality(LanguageTags)} :
        \A i, j \in DOMAIN h : i # j => h[i].lang # h[j].lang}

InitPure ==
    /\ IdleServer
    /\ mode \in {"estimate", "band", "type", "lines", "tree", "distribution"}
    /\ \/ /\ mode = "estimate"
          /\ \E t \in TextsUpTo(MaxTextLen) :
                est = [NoEstimate EXCEPT !.text = t]
          /\ band = NoBand
          /\ cls = NoClass
          /\ lc = NoLines
          /\ md = NoMarkdown
       \/ /\ mode = "band"
          /\ est = NoEstimate
          /\ band = NoBand
          /\ cls = NoClass
          /\ lc = NoLines
          /\ md = NoMarkdown
       \/ /\ mode = "type"
          /\ est = NoEstimate
          /\ band = NoBand
          /\ \E n \in NamesUpTo(MaxNameLen) : cls = [NoClass EXCEPT !.name = n]
          /\ lc = NoLines
          /\ md = NoMarkdown
       \/ /\ mode = "lines"
          /\ est = NoEstimate
          /\ band = NoBand
          /\ cls = NoClass
          /\ \E t \in TextsUpTo(MaxTextLen) : lc = [NoLines EXCEPT !.text = t]
          /\ md = NoMarkdown
       \/ /\ mode = "tree"
          /\ est = NoEstimate
          /\ band = NoBand
          /\ cls = NoClass
          /\ lc = NoLines
          /\ \E files \in FileLists : md = [NoMarkdown EXCEPT !.files = files]
       \/ /\ mode = "distribution"
          /\ est = NoEstimate
          /\ band = NoBand
          /\ cls = NoClass
          /\ lc = NoLines
          /\ \E languages \in Histograms :
                md = [NoMarkdown EXCEPT !.languages = languages]

\* estimate(text) for the text drawn at Init
Estimate ==
    /\ mode = "estimate"
    /\ est.score = 0
    /\ est' = [est EXCEPT !.score = calculateCyclomaticComplexity(est.text)]
    /\ UNCHANGED <<mode, band, cls, lc, md>>
    /\ UNCHANGED serverVars

\* estimate(text + one isolated occurrence of tok)
EstimateAppended ==
    /\ mode = "estimate"
    /\ est.score > 0
    /\ est.appended = "none"
    /\ \E tok \in CountedTokens :
          LET t2 == AppendIsolated(est.text, tok)
          IN  est' = [text |-> t2,
                      score |-> calculateCyclomaticComplexity(t2),
                      before |-> est.score,
                      appended |-> tok]
    /\ UNCHANGED <<mode, band, cls, lc, md>>
    /\ UNCHANGED serverVars

\* the level of the current score
Classify ==
    /\ mode = "band"
    /\ band.level = "none"
    /\ band' = [band EXCEPT !.level = getComplexityLevel(band.score)]
    /\ UNCHANGED <<mode, est, cls, lc, md>>
    /\ UNCHANGED serverVars

\* the level of the next score
ClassifyNext ==
    /\ mode = "band"
    /\ band.level # "none"
    /\ band.score < MaxScore
    /\ band' = [score |-> band.score + 1,
                level |-> getComplexityLevel(band.score + 1),
                prev |-> band.level]
    /\ UNCHANGED <<mode, est, cls, lc, md>>
    /\ UNCHANGED serverVars

\* getFileType of the name drawn at Init
GetFileType ==
    /\ mode = "type"
    /\ cls.type = "none"
    /\ cls' = [cls EXCEPT !.type = getFileType(cls.name)]
    /\ UNCHANGED <<mode, est, band, lc, md>>
    /\ UNCHANGED serverVars

\* the lines getFileInfo reports for a regular file holding the text drawn
\* at Init
CountLines ==
    /\ mode = "lines"
    /\ ~lc.counted
    /\ lc' = [lc EXCEPT !.lines = SplitLines(lc.text), !.counted = TRUE]
    /\ UNCHANGED <<mode, est, band, cls, md>>
    /\ UNCHANGED serverVars

\* generateFileTreeMarkdown of the files drawn at Init
GenerateFileTree ==
    /\ mode = "tree"
    /\ ~md.generated
    /\ md' = [md EXCEPT !.tree = generateFileTreeMarkdown(md.files),
                        !.generated = TRUE]
    /\ UNCHANGED <<mode, est, band, cls, lc>>
    /\ UNCHANGED serverVars

\* generateLanguageDistributionMarkdown of the histogram drawn at Init
GenerateLanguageDistribution ==
    /\ mode = "distribution"
    /\ ~md.generated
    /\ md' = [md EXCEPT
                !.distribution = generateLanguageDistributionMarkdown(md.languages),
                !.generated = TRUE]
    /\ UNCHANGED <<mode, est, band, cls, lc>>
    /\ UNCHANGED serverVars

NextPure ==
    \/ Estimate
    \/ EstimateAppended
    \/ Classify
    \/ ClassifyNext
    \/ GetFileType
    \/ CountLines
    \/ GenerateFileTree
    \/ GenerateLanguageDistribution

SpecPure == InitPure /\ [][NextPure]_vars

(***************************************************************************)
(* Claims.                                                                 *)
(***************************************************************************)
ReqOf(r) == reqs[r.id].req

\* the names list-tools and list-prompts announce
RegisteredTools ==
    LET l == ListTools(NewRec(0, Request("tools/list", "none", NoPath, "undefined")))
    IN  {l.payload.blocks[k].name : k \in DOMAIN l.payload.blocks}
RegisteredPrompts ==
    LET l == ListPrompts(NewRec(0, Request("prompts/list", "none", NoPath, "undefined")))
    IN  {l.payload.blocks[k].name : k \in DOMAIN l.payload.blocks}

IsAnalyzePath(req) == req.method = "tools/call" /\ req.name = "analyze_path"
\* a path argument that is a well-formed path string
LegalPath(a) == a.type = "string" /\ a.raw # "" /\ ~a.nul
\* the node the path argument names in the initial file system
TargetNode(a) == Lookup(InitFs, IF a.abs THEN a.segs ELSE Root \o a.segs)

\* C1 (as stated): no handler is started while the handler of an earlier
\* request is suspended on file system I/O, its response not yet written;
\* and the responses are written in arrival order.
C1_SingleFlight ==
    /\ \A i, j \in DOMAIN reqs : i < j => ~Suspended(reqs[i])
    /\ \A k, m \in DOMAIN out : k < m => out[k].id < out[m].id

\* C2 (as stated): every error response carries the message text of the
\* exception that was raised while the request was served.
C2_MessagePreserved ==
    \A k \in DOMAIN out : out[k].kind = "error" => out[k].message = out[k].cause

\* C3: call-tool with a name that is not a registered tool, and get-prompt
\* with a name that is not a registered prompt, never suspends on a scan, a
\* stat or a read, and is answered with a MethodNotFound error whose message
\* carries exactly that name.
UnknownName(req) ==
    \/ req.method = "tools/call" /\ req.name \notin RegisteredTools
    \/ req.method = "prompts/get" /\ req.name \notin RegisteredPrompts

C3_UnknownNameRejected ==
    /\ \A i \in DOMAIN reqs :
          UnknownName(reqs[i].req) =>
              /\ reqs[i].pc \in {"done", "sent"}
              /\ ~reqs[i].ok
              /\ reqs[i].pc = "done" =>
                    /\ reqs[i].error.code = "MethodNotFound"
                    /\ reqs[i].error.arg = reqs[i].req.name
    /\ \A k \in DOMAIN out :
          UnknownName(ReqOf(out[k])) =>
              /\ out[k].kind = "error"
              /\ out[k].code = "MethodNotFound"
              /\ out[k].message \in {"Unknown tool: ", "Unknown prompt: "}
              /\ out[k].arg = ReqOf(out[k]).name

\* C3 witness: an unknown tool and an unknown prompt have both been answered
C3_Witness ==
    /\ \E k \in DOMAIN out :
          ReqOf(out[k]).method = "tools/call" /\ UnknownName(ReqOf(out[k]))
    /\ \E k \in DOMAIN out :
          ReqOf(out[k]).method = "prompts/get" /\ UnknownName(ReqOf(out[k]))

\* C4 (as stated): read-resource with a URI that is not one of the two known
\* URIs is answered with an error that carries the URI and has the error
\* code of an unknown tool and an unknown prompt (MethodNotFound).
C4_UnknownResourceCode ==
    \A k \in DOMAIN out :
        (ReqOf(out[k]).method = "resources/read"
            /\ ReqOf(out[k]).name \notin {StructureUri, ReadmeUri}) =>
                /\ out[k].kind = "error"
                /\ out[k].arg = ReqOf(out[k]).name
                /\ out[k].code = "MethodNotFound"

\* C5: once a request has ended in an error, the server is still running with
\* the root it was configured with, and (the file system being unchanged)
\* every response written after the error is one the request would have got
\* had it been served alone.
C5_FailureIsolated ==
    \A k \in DOMAIN out :
        out[k].kind = "error" =>
            /\ running
            /\ currentProjectPath = Root
            /\ fsChanges = 0 =>
                  \A m \in DOMAIN out :
                      m > k => out[m] \in ServedAlone(out[m].id, ReqOf(out[m]),
                                                      InitFs, Root)

\* C5 witness: a failed request was followed, in arrival order and in
\* response order, by a request that was answered with a result
C5_Witness ==
    \E k, m \in DOMAIN out :
        /\ k < m
        /\ out[k].kind = "error"
        /\ out[m].kind = "result"
        /\ out[k].id < out[m].id
        /\ ReqOf(out[m]).method \in {"tools/call", "resources/read", "prompts/get"}

\* C6 (as stated): analyze_path answers a DirectoryReport for an existing
\* directory and a FileAnalysis (complexity >= 1) for an existing readable
\* regular file, whatever its content.
C6_AnalyzePathSucceeds ==
    \A k \in DOMAIN out :
        LET req == ReqOf(out[k])
            node == TargetNode(req.path)
        IN  (IsAnalyzePath(req) /\ LegalPath(req.path) /\ fsChanges = 0) =>
                /\ node.kind = "dir" =>
                      /\ out[k].kind = "result"
                      /\ out[k].payload.blocks[1].text.kind = "directory"
                /\ (node.kind = "file" /\ node.readable) =>
                      /\ out[k].kind = "result"
                      /\ out[k].payload.blocks[1].text.kind = "file"
                      /\ out[k].payload.blocks[1].text.cyclomatic >= 1

\* C7 (as stated): analyze_path on a well-formed path whose target is
\* missing, unreadable or not a regular file is answered with the
\* file-unreadable error raised for it, whose code differs from the one of
\* the invalid-path error, and not with another error.
InvalidPathCode == "InvalidRequest"
C7_FileUnreadableSurfaced ==
    \A k \in DOMAIN out :
        LET req == ReqOf(out[k])
            node == TargetNode(req.path)
        IN  (IsAnalyzePath(req) /\ LegalPath(req.path) /\ fsChanges = 0
             /\ (node.kind \in {"missing", "other"}
                 \/ (node.kind = "file" /\ ~node.readable))) =>
                /\ out[k].kind = "error"
                /\ out[k].message = "File not found or unreadable"
                /\ out[k].code # InvalidPathCode

\* C8 (as stated): analyze_path with a path argument that is not a
\* well-formed path is rejected with the invalid-path error before any file
\* system call is awaited.
IllFormedPath(a) == a.type = "number" \/ (a.type = "string" /\ a.nul)
C8_InvalidPathRejected ==
    /\ \A i \in DOMAIN reqs :
          (IsAnalyzePath(reqs[i].req) /\ IllFormedPath(reqs[i].req.path)) =>
              ~Suspended(reqs[i])
    /\ \A k \in DOMAIN out :
          (IsAnalyzePath(ReqOf(out[k])) /\ IllFormedPath(ReqOf(out[k]).path)) =>
              /\ out[k].kind = "error"
              /\ out[k].message = "Invalid path: "
              /\ out[k].arg = ReqOf(out[k]).path.raw

\* C9 (as stated): the estimate is at least 1, and one more isolated
\* occurrence of any of the nine counted tokens raises it by exactly 1.
C9_OneMorePerToken ==
    /\ (mode = "estimate" /\ est.score # 0) => est.score >= 1
    /\ est.appended # "none" => est.score = est.before + 1

\* C10: every score has exactly the level of its band (<= 5 low, 6..10
\* medium, 11..20 high, > 20 critical), and the level never decreases as the
\* score grows.
LevelRank(level) ==
    CASE level = "low" -> 1
      [] level = "medium" -> 2
      [] level = "high" -> 3
      [] level = "critical" -> 4

C10_SeverityBands ==
    band.level # "none" =>
        /\ band.level \in {"low", "medium", "high", "critical"}
        /\ band.level = "low" <=> band.score <= 5
        /\ band.level = "medium" <=> (band.score >= 6 /\ band.score <= 10)
        /\ band.level = "high" <=> (band.score >= 11 /\ band.score <= 20)
        /\ band.level = "critical" <=> band.score > 20
        /\ band.prev # "none" => LevelRank(band.prev) <= LevelRank(band.level)

\* C10 witness: a score above the last threshold has been classified, after
\* the scores below it
C10_Witness ==
    band.score > 20 /\ band.level = "critical" /\ band.prev = "high"

\* the responses that carry a serialized ProjectStructure, and that structure
HasReport(r) ==
    /\ r.kind = "result"
    /\ ReqOf(r).method \in {"resources/read", "tools/call"}
    /\ r.payload.blocks[1].text.kind \in {"json", "directory"}
ReportOf(r) ==
    LET text == r.payload.blocks[1].text
    IN  IF ReqOf(r).name = "generate_documentation"
        THEN text.value.structure
        ELSE text.value

RECURSIVE SumLines(_)
SumLines(files) ==
    IF files = <<>> THEN 0
    ELSE (IF Head(files).hasLines THEN Head(files).lines ELSE 0)
         + SumLines(Tail(files))

\* C11: in every structure a scan returned, totalFiles is the length of
\* files, no directory is among the files, and totalLines is the sum of the
\* lines of the records in files.
C11_ReportTotals ==
    \A k \in DOMAIN out :
        HasReport(out[k]) =>
            LET report == ReportOf(out[k])
            IN  /\ report.totalFiles = Len(report.files)
                /\ \A n \in DOMAIN report.files : ~report.files[n].isDirectory
                /\ report.totalLines = SumLines(report.files)

\* C11 witness: a structure with two files, lines to sum and a directory
\* has been returned
C11_Witness ==
    \E k \in DOMAIN out :
        /\ HasReport(out[k])
        /\ ReportOf(out[k]).totalFiles = 2
        /\ ReportOf(out[k]).totalLines > 1
        /\ ReportOf(out[k]).directories # <<>>

\* C12 (as stated): every FileInfo has lines defined exactly when it is not
\* a directory, and children defined exactly when it is one; stated for the
\* records of the structures returned.
C12_RecordShape ==
    \A k \in DOMAIN out :
        HasReport(out[k]) =>
            \A n \in DOMAIN ReportOf(out[k]).files :
                LET f == ReportOf(out[k]).files[n]
                IN  /\ f.hasLines <=> ~f.isDirectory
                    /\ f.hasChildren <=> f.isDirectory

\* C13: getFileType gives every name one of the file types; a name that
\* ends in .ts or .py, in any letter case, is typescript or python; a name
\* whose extension is missing or not in the table is other; and the type is
\* that of any other name with the same extension in another letter case.
FileTypes ==
    {"typescript", "javascript", "json", "markdown", "yaml", "html", "css",
     "python", "java", "cpp", "other"}
KnownExtensions ==
    {<<".", e>> : e \in {"ts", "js", "json", "md", "yml", "yaml", "html", "css",
                         "py", "java", "cpp", "cc", "cxx"}}
SwapCase(run) ==
    CASE run = "ts" -> "TS"
      [] run = "TS" -> "ts"
      [] run = "tS" -> "Ts"
      [] run = "py" -> "PY"
      [] run = "PY" -> "py"
      [] OTHER -> run
\* another name with the extension of name, in the other letter case
SameExtension(name) ==
    LET ext == extname(name)
    IN  <<"x", "x">> \o [k \in DOMAIN ext |-> SwapCase(ext[k])]
EndsIn(name, runs) ==
    LET n == Len(name)
    IN  n >= 3 /\ name[n - 1] = "." /\ name[n] \in runs

C13_ClassifyByExtension ==
    cls.type # "none" =>
        /\ cls.type \in FileTypes
        /\ EndsIn(cls.name, {"ts", "TS", "tS"}) => cls.type = "typescript"
        /\ EndsIn(cls.name, {"py", "PY"}) => cls.type = "python"
        /\ (\A k \in DOMAIN cls.name : cls.name[k] # ".") => cls.type = "other"
        /\ toLowerCase(extname(cls.name)) \notin KnownExtensions =>
              cls.type = "other"
        /\ cls.type = getFileType(SameExtension(cls.name))

\* C13 witness: a name ending in .TS has been classified as typescript, and
\* so would a name ending in .ts
C13_Witness ==
    /\ cls = [name |-> <<"x", ".", "TS">>, type |-> "typescript"]
    /\ SameExtension(cls.name) = <<"x", "x", ".", "ts">>

\* C14: no entry under .git, node_modules or dist, no log file and no hidden
\* entry is among the files or the directories of a structure returned; and
\* a scan of a root that holds nothing but such entries, on a file system
\* that did not change since the request arrived, returns totalFiles = 0.
Under(rootPath, p) == Len(p) > Len(rootPath) /\ IsPrefix(rootPath, p)
OnlyExcludedUnder(rootPath) ==
    \A p \in DOMAIN fs :
        (Under(rootPath, p) /\ Lookup(fs, p).kind # "missing") =>
            p \in ExcludedPaths

ScansRoot(req) ==
    \/ req.method = "resources/read" /\ req.name \in {StructureUri, ReadmeUri}
    \/ req.method = "tools/call" /\ req.name = "generate_documentation"
    \/ req.method = "prompts/get" /\ req.name = "code_review"

PathsOf(files) == {files[n].path : n \in DOMAIN files}
Range(seq) == {seq[n] : n \in DOMAIN seq}
CountOfType(files, lang) ==
    Cardinality({n \in DOMAIN files : files[n].type = lang})

C15_FailedEntriesSkipped ==
    \A k \in DOMAIN out :
        /\ ScansRoot(ReqOf(out[k])) => out[k].kind = "result"
        /\ HasReport(out[k]) =>
              LET report == ReportOf(out[k])
                  matched == GlobMatches(fs, report.rootPath)
                  good == {p \in matched : getFileInfo(fs, p).ok}
                  goodDirs == {p \in good : getFileInfo(fs, p).info.isDirectory}
              IN  /\ \A n \in DOMAIN report.languages :
                        report.languages[n].count =
                            CountOfType(report.files, report.languages[n].lang)
                  /\ \A n \in DOMAIN report.files :
                        \E m \in DOMAIN report.languages :
                            report.languages[m].lang = report.files[n].type
                  /\ arrived[out[k].id] = fsChanges =>
                        /\ PathsOf(report.files) = good \ goodDirs
                        /\ Range(report.directories) = goodDirs
                        /\ Len(report.files) = Cardinality(good \ goodDirs)
                        /\ Len(report.directories) = Cardinality(goodDirs)
                        /\ report.totalFiles = Cardinality(good \ goodDirs)
                        /\ reqs[out[k].id].warnings = Cardinality(matched \ good)

\* C15 witness: a scan met an entry that could not be read, logged one
\* warning and returned a structure with the other file
C15_Witness ==
    \E k \in DOMAIN out :
        /\ HasReport(out[k])
        /\ arrived[out[k].id] = fsChanges
        /\ ~getFileInfo(fs, FileA).ok
        /\ FileA \in GlobMatches(fs, ReportOf(out[k]).rootPath)
        /\ reqs[out[k].id].warnings = 1
        /\ PathsOf(ReportOf(out[k]).files) = {FileB}

\* C16 (as stated): a request whose scan has a root that is missing or
\* cannot be read, on a file system that did not change since the request
\* arrived, is answered with an error and with no structure.
ScanRootOf(req) ==
    IF ScansRoot(req) THEN Root
    ELSE IF req.path.abs THEN req.path.segs ELSE Root \o req.path.segs
Scans(req) ==
    \/ ScansRoot(req)
    \/ /\ IsAnalyzePath(req)
       /\ LegalPath(req.path)
       /\ Lookup(fs, ScanRootOf(req)).kind = "dir"
RootUnusable(rootPath) ==
    LET node == Lookup(fs, rootPath)
    IN  node.kind = "missing" \/ (node.kind = "dir" /\ ~node.readable)

C16_ScanErrorOnBadRoot ==
    \A k \in DOMAIN out :
        (/\ Scans(ReqOf(out[k]))
         /\ arrived[out[k].id] = fsChanges
         /\ RootUnusable(ScanRootOf(ReqOf(out[k])))) =>
            out[k].kind = "error"

\* C17 (as stated): the lines of a regular file are its terminated lines,
\* plus one when the text ends with a partial line that is not terminated;
\* the count is never negative.
EndsWithPartialLine(text) == text # <<>> /\ text[Len(text)] # "nl"

C17_LineCount ==
    lc.counted =>
        /\ lc.lines >= 0
        /\ lc.lines = CountUnit(lc.text, "nl")
                       + (IF EndsWithPartialLine(lc.text) THEN 1 ELSE 0)

\* C18: every result of a call-tool request carries a content sequence of
\* exactly one block, and the block is of type text.
C18_OneTextBlock ==
    \A k \in DOMAIN out :
        (ReqOf(out[k]).method = "tools/call" /\ out[k].kind = "result") =>
            /\ out[k].payload.kind = "content"
            /\ Len(out[k].payload.blocks) = 1
            /\ out[k].payload.blocks[1].type = "text"

\* C18 witness: both tools have returned a result
C18_Witness ==
    /\ \E k \in DOMAIN out :
          IsAnalyzePath(ReqOf(out[k])) /\ out[k].kind = "result"
    /\ \E k \in DOMAIN out :
          /\ ReqOf(out[k]).name = "generate_documentation"
          /\ out[k].kind = "result"

\* C19: generate_documentation returns the Markdown document, titled with
\* projectName, when format is markdown or absent, and the JSON envelope of
\* project, structure and generatedAt, with project = projectName, when
\* format is json.
IsGenerateDocs(req) ==
    req.method = "tools/call" /\ req.name = "generate_documentation"

C19_DocumentationFormat ==
    \A k \in DOMAIN out :
        IsGenerateDocs(ReqOf(out[k])) =>
            LET req == ReqOf(out[k])
                text == out[k].payload.blocks[1].text
            IN  /\ out[k].kind = "result"
                /\ req.format \in {"markdown", "undefined"} =>
                      /\ text.kind = "markdown"
                      /\ text.title = req.projectName
                /\ req.format = "json" =>
                      /\ text.kind = "json"
                      /\ DOMAIN text.value = {"project", "structure", "generatedAt"}
                      /\ text.value.project = req.projectName

\* C19 witness: a request without format got the Markdown document and a
\* request with format json got the envelope
C19_Witness ==
    /\ \E k \in DOMAIN out :
          /\ IsGenerateDocs(ReqOf(out[k]))
          /\ ReqOf(out[k]).format = "undefined"
          /\ out[k].payload.blocks[1].text.kind = "markdown"
    /\ \E k \in DOMAIN out :
          /\ IsGenerateDocs(ReqOf(out[k]))
          /\ ReqOf(out[k]).format = "json"
          /\ out[k].payload.blocks[1].text.kind = "json"

\* C20: a request that scans the configured root, on a file system that did
\* not change since it arrived, is answered as it is when served alone on
\* that file system, whatever was scanned for earlier requests.
C20_NoCaching ==
    \A k \in DOMAIN out :
        (ScansRoot(ReqOf(out[k])) /\ arrived[out[k].id] = fsChanges) =>
            out[k] \in ServedAlone(out[k].id, ReqOf(out[k]), fs, Root)

\* C20 witness: the same resource was read before and after a change of the
\* file system, and the second response differs from the first
C20_Witness ==
    \E k, m \in DOMAIN out :
        /\ k < m
        /\ ReqOf(out[k]) = ReqOf(out[m])
        /\ ScansRoot(ReqOf(out[k]))
        /\ arrived[out[k].id] < arrived[out[m].id]
        /\ arrived[out[m].id] = fsChanges
        /\ out[k].payload # out[m].payload
        /\ out[k] \in ServedAlone(out[k].id, ReqOf(out[k]), InitFs, Root)

\* C21: the root is the directory the server was started in, in every state;
\* every scan made for a resource, the documentation or the prompt walks it,
\* also after analyze_path has scanned another directory.
C21_RootUnchanged ==
    /\ currentProjectPath = Root
    /\ \A i \in DOMAIN reqs :
          (ScansRoot(reqs[i].req) /\ reqs[i].pc \in {"glob", "walk"}) =>
              reqs[i].scanRoot = Root
    /\ \A k \in DOMAIN out :
          (ScansRoot(ReqOf(out[k])) /\ HasReport(out[k])) =>
              ReportOf(out[k]).rootPath = Root

\* C21 witness: analyze_path reported on the directory sub, and a request
\* made after it was answered with a structure of the root
C21_Witness ==
    \E k, m \in DOMAIN out :
        /\ k < m
        /\ out[k].id < out[m].id
        /\ IsAnalyzePath(ReqOf(out[k]))
        /\ HasReport(out[k])
        /\ ReportOf(out[k]).rootPath = DirSub
        /\ ScansRoot(ReqOf(out[m]))
        /\ HasReport(out[m])
        /\ ReportOf(out[m]).rootPath = Root

\* C22: the Markdown documents a read of docs://generated/readme can return
\* are those generate_documentation can return for format markdown and the
\* root's base name as projectName, on the same file system: a response to
\* either request, on a file system that did not change since the request
\* arrived, carries a document the other request gets on that file system.
ReadmeRequest == Request("resources/read", ReadmeUri, NoPath, "undefined")
DocsOfRootRequest ==
    [Request("tools/call", "generate_documentation", NoPath, "markdown")
        EXCEPT !.projectName = basename(Root)]
Documents(req, fsys) ==
    {r.payload.blocks[1].text : r \in ServedAlone(1, req, fsys, Root)}
C22_ReadmeIsDocumentation ==
    \A k \in DOMAIN out :
        arrived[out[k].id] = fsChanges =>
            /\ ReqOf(out[k]) = ReadmeRequest =>
                  /\ out[k].kind = "result"
                  /\ Len(out[k].payload.blocks) = 1
                  /\ out[k].payload.blocks[1].type = "text"
                  /\ out[k].payload.blocks[1].text
                        \in Documents(DocsOfRootRequest, fs)
            /\ ReqOf(out[k]) = DocsOfRootRequest =>
                  /\ out[k].kind = "result"
                  /\ Len(out[k].payload.blocks) = 1
                  /\ out[k].payload.blocks[1].type = "text"
                  /\ out[k].payload.blocks[1].text
                        \in Documents(ReadmeRequest, fs)

\* C22 witness: the readme was read and the documentation of the root
\* generated on one file system with a file in it, and the two documents
\* are equal
C22_Witness ==
    \E k, m \in DOMAIN out :
        /\ ReqOf(out[k]) = ReadmeRequest
        /\ ReqOf(out[m]) = DocsOfRootRequest
        /\ arrived[out[k].id] = fsChanges
        /\ arrived[out[m].id] = fsChanges
        /\ out[k].kind = "result" /\ out[m].kind = "result"
        /\ out[k].payload.blocks[1].text.title = "proj"
        /\ out[k].payload.blocks[1].text.totalFiles > 0
        /\ out[k].payload.blocks[1].text = out[m].payload.blocks[1].text

\* C23: code_review is listed with no arguments, and a get-prompt for it is
\* answered with exactly one message, of role user and with text content;
\* when the file system did not change since the request arrived, the text
\* reports totalFiles, totalLines and the language tags, in the order of
\* their first file, of a structure a scan of the root returns on it.
PromptRequest == Request("prompts/get", "code_review", NoPath, "undefined")
StructureRequest ==
    Request("resources/read", StructureUri, NoPath, "undefined")
Structures(fsys) ==
    {r.payload.blocks[1].text.value :
        r \in ServedAlone(1, StructureRequest, fsys, Root)}
C23_CodeReviewPrompt ==
    \A k \in DOMAIN out :
        /\ (ReqOf(out[k]).method = "prompts/list" /\ out[k].kind = "result") =>
              \A n \in DOMAIN out[k].payload.blocks :
                  out[k].payload.blocks[n].name = "code_review" =>
                      out[k].payload.blocks[n].arguments = <<>>
        /\ ReqOf(out[k]) = PromptRequest =>
              /\ out[k].kind = "result"
              /\ out[k].payload.kind = "messages"
              /\ Len(out[k].payload.blocks) = 1
              /\ out[k].payload.blocks[1].role = "user"
              /\ out[k].payload.blocks[1].type = "text"
              /\ arrived[out[k].id] = fsChanges =>
                    \E structure \in Structures(fs) :
                        LET text == out[k].payload.blocks[1].text
                        IN  /\ text.files = structure.totalFiles
                            /\ text.lines = structure.totalLines
                            /\ text.languages =
                                  [n \in DOMAIN structure.languages |->
                                      structure.languages[n].lang]

\* C23 witness: the prompt was answered for a root with two files of
\* different languages
C23_Witness ==
    \E k \in DOMAIN out :
        /\ ReqOf(out[k]) = PromptRequest
        /\ arrived[out[k].id] = fsChanges
        /\ out[k].kind = "result"
        /\ out[k].payload.blocks[1].text.files = 2
        /\ out[k].payload.blocks[1].text.lines > 0
        /\ Len(out[k].payload.blocks[1].text.languages) = 2

\* C24 (as stated): list-tools returns the two descriptors analyze_path, with
\* the required string property path, and generate_documentation, with the
\* required property projectName and the optional property format; and a
\* call of analyze_path with a path is dispatched to the path analysis, so
\* it is not refused as an unknown tool.
StatedTools ==
    {Tool("analyze_path", {"path"}, {"path"}),
     Tool("generate_documentation", {"projectName", "format"}, {"projectName"})}
C24_ToolSurface ==
    \A k \in DOMAIN out :
        /\ ReqOf(out[k]).method = "tools/list" =>
              /\ out[k].kind = "result"
              /\ Len(out[k].payload.blocks) = 2
              /\ Range(out[k].payload.blocks) = StatedTools
        /\ (IsAnalyzePath(ReqOf(out[k])) /\ LegalPath(ReqOf(out[k]).path)) =>
              ~(out[k].kind = "error" /\ out[k].message = "Unknown tool: ")

\* C25: the root is only read, and a request served on a file system that
\* did not change since it arrived gets a response it gets when it is served
\* alone on that file system, whichever other handlers ran while its own
\* was suspended.
C25_HandlersIndependent ==
    /\ currentProjectPath = Root
    /\ \A k \in DOMAIN out :
          arrived[out[k].id] = fsChanges =>
              out[k] \in ServedAlone(out[k].id, ReqOf(out[k]), fs, Root)

\* C25 witness: two scans overlapped on an unchanged file system, and the
\* request that arrived second was answered first
C25_Witness ==
    /\ fsChanges = 0
    /\ Len(out) = 2
    /\ out[1].id = 2
    /\ out[2].id = 1
    /\ HasReport(out[1])
    /\ HasReport(out[2])
    /\ ReportOf(out[1]).totalLines > 0
    /\ ReportOf(out[2]).totalLines > 0

\* C26 (as stated): two calls of generate_documentation with the same
\* projectName and format, both served on a file system that did not change
\* from the arrival of the first on, return the same output, the timestamp
\* apart: the same files in the same order and the same histogram order.
C26_DocumentationDeterministic ==
    \A k, m \in DOMAIN out :
        (/\ IsGenerateDocs(ReqOf(out[k]))
         /\ ReqOf(out[k]) = ReqOf(out[m])
         /\ arrived[out[k].id] = fsChanges
         /\ arrived[out[m].id] = fsChanges) =>
            out[k].payload = out[m].payload

\* C27: the file tree of the Markdown document has one line for each of the
\* first 20 records of files that are not directories, in the order of
\* files, and none for any other; the language distribution has one line
\* for every tag of the histogram, with its count, and the counts do not
\* increase from one line to the next.
PlainBefore(files, i) ==
    Cardinality({j \in 1..i : ~files[j].isDirectory})
NthPlain(files, k) ==
    CHOOSE i \in DOMAIN files :
        ~files[i].isDirectory /\ PlainBefore(files, i) = k
C27_TreeAndDistribution ==
    md.generated =>
        /\ mode = "tree" =>
              LET plain == PlainBefore(md.files, Len(md.files))
              IN  /\ Len(md.tree) <= FileTreeLimit
                  /\ Len(md.tree) =
                        IF plain < FileTreeLimit THEN plain ELSE FileTreeLimit
                  /\ \A k \in DOMAIN md.tree :
                        md.tree[k] =
                            RelativeToCwd(md.files[NthPlain(md.files, k)].path)
        /\ mode = "distribution" =>
              /\ Len(md.distribution) = Len(md.languages)
              /\ \A n \in DOMAIN md.languages :
                    Cardinality({k \in DOMAIN md.distribution :
                        md.distribution[k].lang = md.languages[n].lang}) = 1
              /\ Range(md.distribution) = Range(md.languages)
              /\ \A k \in 1..(Len(md.distribution) - 1) :
                    md.distribution[k].count >= md.distribution[k + 1].count

\* C27 witness: the tree was generated for more than 20 files with a
\* directory among the first 20 records, and shows 20 of them
C27_Witness ==
    /\ mode = "tree"
    /\ md.generated
    /\ PlainBefore(md.files, Len(md.files)) > FileTreeLimit
    /\ \E i \in 1..FileTreeLimit : md.files[i].isDirectory
    /\ Len(md.tree) = FileTreeLimit

\* C28 (as stated): a scan on a file system that did not change since the
\* request arrived succeeds, and a directory below its root whose entries
\* cannot be read is in its structure neither as a directory nor as a file.
UnreadableDirectory(p) ==
    Lookup(fs, p).kind = "dir" /\ ~Lookup(fs, p).readable
C28_UnreadableDirectorySkipped ==
    \A k \in DOMAIN out :
        (/\ arrived[out[k].id] = fsChanges
         /\ ScansRoot(ReqOf(out[k]))
         /\ ~UnreadableDirectory(Root)) =>
            /\ out[k].kind = "result"
            /\ HasReport(out[k]) =>
                  \A p \in GlobMatches(fs, ReportOf(out[k]).rootPath) :
                      UnreadableDirectory(p) =>
                          /\ p \notin Range(ReportOf(out[k]).directories)
                          /\ p \notin PathsOf(ReportOf(out[k]).files)

\* C29: whenever a list response and a response to a call, a read or a
\* get of the same category have been written, the identifier of the latter
\* was refused as unknown exactly if the list does not hold it; and two
\* list responses of one category are equal.
ListMethodOf(method) ==
    CASE method = "tools/call" -> "tools/list"
      [] method = "resources/read" -> "resources/list"
      [] method = "prompts/get" -> "prompts/list"
      [] OTHER -> "none"
Listed(r) ==
    {IF ReqOf(r).method = "resources/list"
     THEN r.payload.blocks[n]
     ELSE r.payload.blocks[n].name : n \in DOMAIN r.payload.blocks}
RefusedAsUnknown(r) ==
    /\ r.kind = "error"
    /\ r.message \in {"Unknown tool: ", "Unknown resource: ", "Unknown prompt: "}
C29_RegistryMatchesDispatch ==
    \A k, m \in DOMAIN out :
        /\ (/\ ReqOf(out[k]).method \in {"tools/list", "resources/list",
                                          "prompts/list"}
            /\ ReqOf(out[m]).method = ReqOf(out[k]).method) =>
              /\ out[k].kind = "result"
              /\ out[k].payload = out[m].payload
        /\ ReqOf(out[k]).method = ListMethodOf(ReqOf(out[m]).method) =>
              (ReqOf(out[m]).name \in Listed(out[k]) <=> ~RefusedAsUnknown(out[m]))

\* C29 witness: list-tools was answered, and after it a call of a tool it
\* lists was answered with a result
C29_Witness ==
    \E k, m \in DOMAIN out :
        /\ k < m
        /\ ReqOf(out[k]).method = "tools/list"
        /\ ReqOf(out[m]).method = "tools/call"
        /\ ReqOf(out[m]).name \in Listed(out[k])
        /\ out[m].kind = "result"

\* C30 (as stated): the lines, the characters and the complexity of every
\* file analysis are those of one text, a content the file can have, also
\* when the file is changed while the request is in flight.
FileContents ==
    {n.content : n \in {s \in UNION {NodeStates(p) : p \in MutablePaths}
                                \cup {InitFs[p] : p \in Paths} :
                            s.kind = "file"}}
C30_OneSnapshot ==
    \A k \in DOMAIN out :
        (/\ IsAnalyzePath(ReqOf(out[k]))
         /\ out[k].kind = "result"
         /\ out[k].payload.blocks[1].text.kind = "file") =>
            \E c \in FileContents :
                LET analysis == out[k].payload.blocks[1].text
                IN  /\ analysis.lines = SplitLines(c)
                    /\ analysis.characters = CharLen(c)
                    /\ analysis.cyclomatic = calculateCyclomaticComplexity(c)

====
